---------------------------- MODULE Spec2Model ----------------------------
(***************************************************************************)
(* A model of the execution core of bdsim (BlockDiagram, Block, Plug,     *)
(* Wire): diagram construction, compile() and evaluate().                 *)
(*                                                                         *)
(* Python objects live in heaps: blocks[i] is the i-th Block object ever  *)
(* created, wires[j] the j-th Wire object, diagrams[d] the d-th           *)
(* BlockDiagram; lists of objects (blocklist, wirelist, inports,          *)
(* outports) hold heap indices.  Python lists are 0-based, TLA+ sequences *)
(* 1-based: port and id numbers keep their Python value, and a Python     *)
(* index p of a list is position p + 1 of the sequence.                   *)
(***************************************************************************)
EXTENDS Integers, Sequences, FiniteSets, TLC

VARIABLES
    blocks,     \* heap of Block objects
    wires,      \* heap of Wire objects
    diagrams,   \* heap of BlockDiagram objects; diagrams[Top] is the user's
    pc,         \* position of the calling script: "build", "compiled", "failed"
    result      \* outcome of the last compile()/evaluate() call

vars == <<blocks, wires, diagrams, pc, result>>

-----------------------------------------------------------------------------
(* Bounds of the model *)

MaxBlocks == 3
MaxWires == 3

Top == 1

(* Values that travel on wires.  None is Python's None, NaN a non-finite  *)
(* float, the others finite numbers.                                      *)
None == "None"
NaN == "NaN"
FiniteVals == {"0", "1"}

-----------------------------------------------------------------------------
(* Generic sequence helpers (Python list operations) *)

\* x[:n] of a Python sequence
PyTake(s, n) == SubSeq(s, 1, IF n < Len(s) THEN n ELSE Len(s))

\* x[n:] of a Python sequence
PyDrop(s, n) == SubSeq(s, (IF n < Len(s) THEN n ELSE Len(s)) + 1, Len(s))

\* [v] * n
Repeat(v, n) == [i \in 1..n |-> v]

RECURSIVE Flatten(_)
\* concatenation of a list of lists
Flatten(ss) == IF ss = <<>> THEN <<>> ELSE Head(ss) \o Flatten(Tail(ss))

RECURSIVE SumSeq(_)
SumSeq(s) == IF s = <<>> THEN 0 ELSE Head(s) + SumSeq(Tail(s))

-----------------------------------------------------------------------------
(* Block objects *)

\* An empty inports slot (Python None in b.inports); wire heap indices are >= 1.
NoWire == 0

\* Block names are tuples: <<>> for name = None, <<type, n>> for the default
\* name "type.n", <<s>> for a name s the user gave.
NoName == <<>>

\* Block.__new__ / Block.__init__ followed by the subclass constructor: the
\* attributes of a freshly constructed block that is not yet in a diagram.
\* inputs is <<>> until the first reset() (the attribute does not exist yet).
NewBlock(blockclass, type, nin, nout, nstates, x0, val) ==
    [ blockclass |-> blockclass,
      type       |-> type,
      name       |-> NoName,
      name_tex   |-> NoName,   \* set only when a name is given
      id         |-> None,
      bd         |-> None,
      nin        |-> nin,
      nout       |-> nout,
      nstates    |-> nstates,
      x0         |-> x0,       \* TransferBlock._x0
      x          |-> <<>>,     \* TransferBlock._x
      val        |-> val,      \* block parameter: the value a source emits
      inputs     |-> <<>>,
      updated    |-> FALSE,
      inports    |-> <<>>,
      outports   |-> <<>>,
      subsystem  |-> 0 ]       \* the sub-diagram of a subsystem block

\* The block library: each kind of block as the docstrings of the four classes
\* describe it.  A source has outputs and no inputs, a sink inputs and no
\* outputs, a function block inputs and outputs and no state, a transfer block
\* inputs, outputs and states.
SourceBlock(type, nout, val) == NewBlock("source", type, 0, nout, 0, <<>>, val)
SinkBlock(type, nin) == NewBlock("sink", type, nin, 0, 0, <<>>, None)
FunctionBlock(type, nin, nout) == NewBlock("function", type, nin, nout, 0, <<>>, None)
TransferBlock(type, nin, nout, x0) ==
    NewBlock("transfer", type, nin, nout, Len(x0), x0, None)

\* isinstance(b, TransferBlock), isinstance(b, SourceBlock): the class of
\* the object, which its blockclass attribute names
IsTransfer(b) == b.blockclass = "transfer"
\* function blocks taken for blocks with initial outputs, too
IsSourceOrFunction(b) == b.blockclass \in {"source", "function"}
IsSource(b) == b.blockclass = "source"

-----------------------------------------------------------------------------
(* Plugs and wires *)

\* A bare Block given to connect()
BlockArg(b) == [block |-> b, sel |-> "block"]
\* block[p] with an integer p
PlugArg(b, p) == [block |-> b, sel |-> "int", port |-> p]
\* block[lo:hi:step]; step = 0 stands for an omitted step
SliceArg(b, lo, hi, step) ==
    [block |-> b, sel |-> "slice", lo |-> lo, hi |-> hi, step |-> step]

isslice(plug) == plug.sel = "slice"

RECURSIVE PyRange(_, _, _)
\* list(range(lo, hi, step)) for step >= 1
PyRange(lo, hi, step) ==
    IF lo >= hi THEN <<>> ELSE <<lo>> \o PyRange(lo + step, hi, step)

\* Plug.portlist
portlist(plug) ==
    IF isslice(plug)
    THEN PyRange(plug.lo, plug.hi, IF plug.step = 0 THEN 1 ELSE plug.step)
    ELSE <<plug.port>>

width(plug) == Len(portlist(plug))

\* plug.port of an integer plug; for a slice object, its start
PortOf(plug) == IF isslice(plug) THEN plug.lo ELSE plug.port

\* plug.port when it is a slice object: (start, stop, step), else empty
SliceOf(plug) == IF isslice(plug) THEN <<plug.lo, plug.hi, plug.step>> ELSE <<>>

\* the Plug object a wire keeps at one end
WirePlug(plug) ==
    [block |-> plug.block, port |-> PortOf(plug), slice |-> SliceOf(plug)]

\* Wire(start, end, name): both name assignments of the constructor
NewWireOf(start, end, name) ==
    [ start |-> WirePlug(start),
      end   |-> WirePlug(end),
      name  |-> None,
      id    |-> None ]

\* Wire(Plug(sb, sp, 'start'), Plug(eb, ep, 'end'), name) with integer ports
NewWire(sb, sp, eb, ep, name) == NewWireOf(PlugArg(sb, sp), PlugArg(eb, ep), name)

-----------------------------------------------------------------------------
(* The world: the three heaps, passed through the operations *)

World == [blocks |-> blocks, wires |-> wires, diagrams |-> diagrams]

\* BlockDiagram.__init__
NewDiagram ==
    [ blocklist    |-> <<>>,
      wirelist     |-> <<>>,
      compiled     |-> FALSE,
      checkfinite  |-> TRUE,
      t            |-> None,
      T            |-> None,   \* maximum time
      stop         |-> 0,      \* the block that asked to stop; 0 for None
      blockcounter |-> <<>>,   \* Counter(): (type, count) for the types counted
      nstates      |-> 0,      \* set by compile()
      statenames   |-> <<>>,   \* set by compile()
      blocknames   |-> {} ]    \* set by compile()

\* Counter()[type]
CounterGet(c, type) ==
    IF \E i \in 1..Len(c) : c[i][1] = type
    THEN (CHOOSE e \in {c[i] : i \in 1..Len(c)} : e[1] = type)[2]
    ELSE 0

\* Counter()[type] += 1
CounterInc(c, type) ==
    IF \E i \in 1..Len(c) : c[i][1] = type
    THEN [i \in 1..Len(c) |-> IF c[i][1] = type THEN <<type, c[i][2] + 1>> ELSE c[i]]
    ELSE Append(c, <<type, 1>>)

\* add_block advancing the per-type counter for named blocks as well
add_block_countall(w, d, b) ==
    LET dg == w.diagrams[d]
        blk == w.blocks[b]
        nm == IF blk.name = NoName
              THEN <<blk.type, CounterGet(dg.blockcounter, blk.type)>>
              ELSE blk.name
    IN [w EXCEPT
          !.blocks[b] = [blk EXCEPT !.id = Len(dg.blocklist), !.name = nm, !.bd = d],
          !.diagrams[d] =
              [dg EXCEPT !.blocklist = Append(dg.blocklist, b),
                         !.blockcounter = CounterInc(dg.blockcounter, blk.type)]]

\* bd.add_block(block) for the block object at heap index b
add_block(w, d, b) ==
    LET dg == w.diagrams[d]
        blk == w.blocks[b]
        unnamed == blk.name = NoName
        nm == IF unnamed
              THEN <<blk.type, CounterGet(dg.blockcounter, blk.type)>>
              ELSE blk.name
    IN [w EXCEPT
          !.blocks[b] = [blk EXCEPT !.id = Len(dg.blocklist), !.name = nm, !.bd = d],
          !.diagrams[d] =
              [dg EXCEPT !.blocklist = Append(dg.blocklist, b),
                         !.blockcounter = IF unnamed
                                          THEN CounterInc(dg.blockcounter, blk.type)
                                          ELSE dg.blockcounter]]

\* add_wire numbering the wires from 1
add_wire_from1(w, d, wire) ==
    LET dg == w.diagrams[d]
        wid == Len(w.wires) + 1
    IN [w EXCEPT
          !.wires = Append(w.wires, [wire EXCEPT !.id = Len(dg.wirelist) + 1,
                                                 !.name = None]),
          !.diagrams[d] = [dg EXCEPT !.wirelist = Append(dg.wirelist, wid)]]

\* bd.add_wire(wire): called by connect() without a name, so name = None
add_wire(w, d, wire) ==
    LET dg == w.diagrams[d]
        wid == Len(w.wires) + 1
    IN [w EXCEPT
          !.wires = Append(w.wires, [wire EXCEPT !.id = Len(dg.wirelist), !.name = None]),
          !.diagrams[d] = [dg EXCEPT !.wirelist = Append(dg.wirelist, wid)]]

\* the loop leaving after its first wire
AddWiresFirstOnly(w, d, ws) == IF ws = <<>> THEN w ELSE add_wire(w, d, Head(ws))

RECURSIVE AddWires(_, _, _)
\* the loop "for ...: wire = Wire(...); self.add_wire(wire)" over a list of wires
AddWires(w, d, ws) ==
    IF ws = <<>> THEN w ELSE AddWires(add_wire(w, d, Head(ws)), d, Tail(ws))

\* a Block argument of connect() becomes Plug(block, 0)
AsPlug(arg) == IF arg.sel = "block" THEN PlugArg(arg.block, 0) ELSE arg

\* zip(a, b) taken as far as the shorter list goes
ZipLen(a, b) == IF Len(a) < Len(b) THEN Len(a) ELSE Len(b)

RECURSIVE ConnectEndsUnchecked(_, _, _, _, _)
\* the loop over args[1:] of connect() without its two width assertions
ConnectEndsUnchecked(w, d, start, ends, name) ==
    IF ends = <<>> THEN [w |-> w, raised |-> FALSE]
    ELSE
      LET end == AsPlug(Head(ends))
          sl == portlist(start)
          el == portlist(end)
      IN  IF isslice(start) /\ isslice(end)
          THEN ConnectEndsUnchecked(
                 AddWires(w, d, [i \in 1..ZipLen(sl, el) |->
                     NewWire(start.block, sl[i], end.block, el[i], name)]),
                 d, start, Tail(ends), name)
          ELSE IF isslice(start) /\ ~isslice(end)
          THEN ConnectEndsUnchecked(
                 AddWires(w, d, [i \in 1..Len(sl) |->
                     NewWire(start.block, sl[i], end.block, i - 1, name)]),
                 d, start, Tail(ends), name)
          ELSE ConnectEndsUnchecked(
                 add_wire(w, d, NewWireOf(start, end, name)),
                 d, start, Tail(ends), name)

RECURSIVE ConnectEnds(_, _, _, _, _)
\* the loop over args[1:] of connect(); returns the world and whether an
\* assertion failed (the wires added before the failure stay)
ConnectEnds(w, d, start, ends, name) ==
    IF ends = <<>> THEN [w |-> w, raised |-> FALSE]
    ELSE
      LET end == AsPlug(Head(ends))
          sl == portlist(start)
          el == portlist(end)
      IN  IF isslice(start) /\ isslice(end)
          THEN IF width(start) # width(end)
               THEN [w |-> w, raised |-> TRUE]
               ELSE ConnectEnds(
                      AddWires(w, d, [i \in 1..Len(sl) |->
                          NewWire(start.block, sl[i], end.block, el[i], name)]),
                      d, start, Tail(ends), name)
          ELSE IF isslice(start) /\ ~isslice(end)
          THEN IF width(start) # w.blocks[end.block].nin
               THEN [w |-> w, raised |-> TRUE]
               ELSE ConnectEnds(
                      AddWires(w, d, [i \in 1..Len(sl) |->
                          NewWire(start.block, sl[i], end.block, i - 1, name)]),
                      d, start, Tail(ends), name)
          ELSE ConnectEnds(
                 add_wire(w, d, NewWireOf(start, end, name)),
                 d, start, Tail(ends), name)

\* bd.connect(args[0], *args[1:], name=name)
connect(w, d, args, name) == ConnectEnds(w, d, AsPlug(Head(args)), Tail(args), name)

-----------------------------------------------------------------------------
(* Python list indexing *)

\* lst[p] is defined for -len <= p < len
PyIndexOk(p, n) == -n <= p /\ p < n

\* the position in the TLA+ sequence of Python index p of a list of length n
PyPos(p, n) == IF p < 0 THEN p + n + 1 ELSE p + 1

-----------------------------------------------------------------------------
(* The blocks' own numerics: output(t) and deriv() of the block library.   *)
(* A source emits its parameter on every port, a function block passes its *)
(* first input on (NaN if any input is NaN; arithmetic on None raises), a  *)
(* transfer block outputs its first state and its derivative is its first  *)
(* input (arithmetic on None raises there, too).  Block.output of the base *)
(* class (sink, subsystem) returns None.                                   *)

Output(blk) ==
    CASE blk.blockclass = "source" ->
           [raised |-> "ok", islist |-> TRUE, out |-> Repeat(blk.val, blk.nout)]
      [] blk.blockclass = "function" ->
           IF \E i \in 1..Len(blk.inputs) : blk.inputs[i] = None
           THEN [raised |-> "TypeError", islist |-> FALSE, out |-> <<>>]
           ELSE IF blk.inputs = <<>>
           THEN [raised |-> "AttributeError", islist |-> FALSE, out |-> <<>>]
           ELSE [raised |-> "ok", islist |-> TRUE,
                 out |-> Repeat(IF \E i \in 1..Len(blk.inputs) : blk.inputs[i] = NaN
                                THEN NaN ELSE blk.inputs[1], blk.nout)]
      [] blk.blockclass = "transfer" ->
           IF blk.x = <<>>
           THEN [raised |-> "IndexError", islist |-> FALSE, out |-> <<>>]
           ELSE [raised |-> "ok", islist |-> TRUE, out |-> Repeat(blk.x[1], blk.nout)]
      [] OTHER -> [raised |-> "ok", islist |-> FALSE, out |-> <<>>]

\* deriv().flatten() of a transfer block: nstates components
Deriv(blk) == Repeat(blk.inputs[1], blk.nstates)

-----------------------------------------------------------------------------
(* Block methods used by the evaluator *)

\* a reset that creates the input slots once and never clears them again
reset_once(blk) ==
    LET r == [blk EXCEPT !.inputs = IF blk.nin > 0 /\ blk.inputs = <<>>
                                    THEN Repeat(None, blk.nin) ELSE @,
                         !.updated = FALSE]
    IN IF IsTransfer(blk) THEN [r EXCEPT !.x = blk.x0] ELSE r

\* a reset that clears the input slots and keeps the completion flag
reset_keep_flag(blk) ==
    LET r == [blk EXCEPT !.inputs = IF blk.nin > 0 THEN Repeat(None, blk.nin) ELSE @]
    IN IF IsTransfer(blk) THEN [r EXCEPT !.x = blk.x0] ELSE r

\* Block.reset, and TransferBlock.reset on top of it
reset(blk) ==
    LET r == [blk EXCEPT !.inputs = IF blk.nin > 0 THEN Repeat(None, blk.nin) ELSE @,
                         !.updated = FALSE]
    IN IF IsTransfer(blk) THEN [r EXCEPT !.x = blk.x0] ELSE r

\* a setstate that hands the whole vector on
setstate_keep(blk, x) ==
    [blk |-> [blk EXCEPT !.x = PyTake(x, blk.nstates)], rest |-> x]

\* TransferBlock.setstate: the block with its state, and the rest of x
setstate(blk, x) ==
    [blk |-> [blk EXCEPT !.x = PyTake(x, blk.nstates)], rest |-> PyDrop(x, blk.nstates)]

\* TransferBlock.getstate
getstate(blk) == blk.x0

\* Block.setinput(port, value): the block afterwards, what is returned, and
\* the exception raised when inputs has no such slot
setinput(blk, port, value) ==
    IF blk.inputs = <<>>
    THEN [blk |-> blk, ret |-> FALSE, raised |-> "AttributeError"]
    ELSE IF ~PyIndexOk(port, Len(blk.inputs))
    THEN [blk |-> blk, ret |-> FALSE, raised |-> "IndexError"]
    ELSE LET ins == [blk.inputs EXCEPT ![PyPos(port, Len(blk.inputs))] = value]
             complete == \A i \in 1..Len(ins) : ins[i] # None
             upd == IF complete THEN TRUE ELSE blk.updated
         IN [blk |-> [blk EXCEPT !.inputs = ins, !.updated = upd],
             ret |-> upd, raised |-> "ok"]

\* Wire.send(value) of the wire at heap index wid
send(w, wid, value) ==
    LET wire == w.wires[wid]
        r == setinput(w.blocks[wire.end.block], wire.end.port, value)
    IN [w |-> [w EXCEPT !.blocks[wire.end.block] = r.blk], ret |-> r.ret, raised |-> r.raised]

\* "b.done" in "if b.nin > 0 and not b.done": the bound method Block.done,
\* which is an object and so always true
done(blk) == TRUE

-----------------------------------------------------------------------------
(* The evaluator.  An evaluation in progress is a record e: the world, the *)
(* exception raised so far ("ok" for none), and the trace of the calls in  *)
(* the order they were made: <<"output", block, list returned, exception>>,*)
(* <<"send", wire, value, what send returned>>, <<"recurse", block>> for   *)
(* the nested _propagate call and <<"deriv", block, vector, exception>>.   *)

\* isinstance(out, (int, float, np.ndarray)) for an out that has passed
\* "assert isinstance(out, list)"
IsNumberOrArray(out) == FALSE

\* not np.isfinite(out).any(): no element is finite
NoneFinite(out) == ~ \E i \in 1..Len(out) : out[i] \in FiniteVals

\* the (port, wire) pairs of a block in the order the wires were added,
\* whatever their ports
OutWirePairsAsAdded(blk) ==
    SortSeq(Flatten([p \in 1..Len(blk.outports) |->
                [i \in 1..Len(blk.outports[p]) |-> <<p - 1, blk.outports[p][i]>>]]),
            LAMBDA a, b : a[2] < b[2])

\* the (port, wire) pairs of "for (port, outwires) in enumerate(b.outports):
\* for w in outwires", in the order the loops visit them
OutWirePairs(blk) ==
    Flatten([p \in 1..Len(blk.outports) |->
                [i \in 1..Len(blk.outports[p]) |-> <<p - 1, blk.outports[p][i]>>]])

\* a recursion into every destination whose inputs the send completed
RecurseIfSent(sent, destclass) == sent

\* the condition of the recursion in _propagate: Python reads
\* "a and b or c" as "(a and b) or c"
RecurseInto(sent, destclass) ==
    (sent /\ destclass = "function") \/ destclass = "subsystem"

RECURSIVE propagate(_, _, _, _)
RECURSIVE SendWires(_, _, _, _, _, _)

\* In the evaluator a value that is used more than once is bound as the one
\* element of a set ("CHOOSE r \in {f(v) : v \in {value}} : TRUE" is f(value)),
\* which works it out once.

\* BlockDiagram._propagate(b, t, depth); stack holds the blocks whose
\* _propagate is running: entering one of them again never returns, which
\* Python ends with a RecursionError
propagate(e, d, b, stack) ==
    IF b \in stack THEN [e EXCEPT !.err = "RecursionError"]
    ELSE CHOOSE r \in
      { LET blk == e.w.blocks[b]
            e1 == [e EXCEPT !.trace = Append(@, <<"output", b, o.out, o.raised>>)]
        IN  IF o.raised # "ok" THEN [e1 EXCEPT !.err = o.raised]
            ELSE IF ~(o.islist /\ Len(o.out) = blk.nout)
            THEN [e1 EXCEPT !.err = "AssertionError"]
            ELSE IF e.w.diagrams[d].checkfinite /\ IsNumberOrArray(o.out)
                    /\ NoneFinite(o.out)
            THEN [e1 EXCEPT !.err = "RuntimeError"]
            ELSE SendWires(e1, d, o.out, OutWirePairs(blk), stack \cup {b}, 1)
        : o \in {Output(e.w.blocks[b])} } : TRUE

\* the two loops at the end of _propagate, from the i-th (port, wire) pair on
SendWires(e, d, out, pairs, stack, i) ==
    IF i > Len(pairs) \/ e.err # "ok" THEN e
    ELSE CHOOSE r \in
      { LET wid == pairs[i][2]
            dest == e.w.wires[wid].end.block
            e1 == [e EXCEPT !.w = s.w,
                            !.trace = Append(@, <<"send", wid, out[pairs[i][1] + 1], s.ret>>)]
        IN  IF s.raised # "ok" THEN [e1 EXCEPT !.err = s.raised]
            ELSE CHOOSE r2 \in
              { SendWires(e2, d, out, pairs, stack, i + 1)
                : e2 \in { IF RecurseInto(s.ret, e.w.blocks[dest].blockclass)
                           THEN propagate([e1 EXCEPT !.trace =
                                              Append(@, <<"recurse", dest>>)],
                                          d, dest, stack)
                           ELSE e1 } } : TRUE
        : s \in {send(e.w, pairs[i][2], out[pairs[i][1] + 1])} } : TRUE

\* BlockDiagram.reset
ResetAll(w, d) ==
    LET bl == w.diagrams[d].blocklist
        inlist == {bl[i] : i \in 1..Len(bl)}
    IN [w EXCEPT !.blocks = [b \in DOMAIN w.blocks |->
                                IF b \in inlist THEN reset(w.blocks[b]) ELSE w.blocks[b]]]

RECURSIVE ScatterState(_, _, _, _)
\* "for b in self.blocklist: if isinstance(b, TransferBlock): x = b.setstate(x)"
ScatterState(w, d, x, i) ==
    LET bl == w.diagrams[d].blocklist
    IN  IF i > Len(bl) THEN w
        ELSE IF IsTransfer(w.blocks[bl[i]])
        THEN LET r == setstate(w.blocks[bl[i]], x)
             IN ScatterState([w EXCEPT !.blocks[bl[i]] = r.blk], d, r.rest, i + 1)
        ELSE ScatterState(w, d, x, i + 1)

RECURSIVE PropagateAll(_, _, _)
\* "for b in self.blocklist: if isinstance(b, (SourceBlock, TransferBlock)):
\* self._propagate(b, t)"
PropagateAll(e, d, i) ==
    LET bl == e.w.diagrams[d].blocklist
    IN  IF i > Len(bl) \/ e.err # "ok" THEN e
        ELSE IF IsSource(e.w.blocks[bl[i]]) \/ IsTransfer(e.w.blocks[bl[i]])
        THEN CHOOSE r \in {PropagateAll(e2, d, i + 1) :
                              e2 \in {propagate(e, d, bl[i], {})}} : TRUE
        ELSE PropagateAll(e, d, i + 1)

\* "if b.nin > 0 and not b.done: raise RuntimeError" for some block
IncompleteInputs(w, d) ==
    LET bl == w.diagrams[d].blocklist
    IN \E i \in 1..Len(bl) : w.blocks[bl[i]].nin > 0 /\ ~done(w.blocks[bl[i]])

RECURSIVE GatherDerivPartial(_, _, _)
\* a gather that goes on after a deriv() that raised and hands back what the
\* other blocks gave
GatherDerivPartial(w, d, i) ==
    LET bl == w.diagrams[d].blocklist
    IN  IF i > Len(bl) THEN [err |-> "ok", YD |-> <<>>, calls |-> <<>>]
        ELSE IF IsTransfer(w.blocks[bl[i]])
        THEN LET rest == GatherDerivPartial(w, d, i + 1)
                 fails == w.blocks[bl[i]].inputs[1] = None
                 yd == IF fails THEN <<>> ELSE Deriv(w.blocks[bl[i]])
             IN [err |-> IF fails THEN "TypeError" ELSE rest.err,
                 YD |-> yd \o rest.YD,
                 calls |-> << <<"deriv", bl[i], yd, IF fails THEN "TypeError" ELSE "ok">> >>
                           \o rest.calls]
        ELSE GatherDerivPartial(w, d, i + 1)

RECURSIVE GatherDeriv(_, _, _)
\* the loop that gathers the derivative, from the i-th block on: the
\* exception it ends with, the vector gathered, the deriv() calls made
GatherDeriv(w, d, i) ==
    LET bl == w.diagrams[d].blocklist
    IN  IF i > Len(bl) THEN [err |-> "ok", YD |-> <<>>, calls |-> <<>>]
        ELSE IF IsTransfer(w.blocks[bl[i]])
        THEN IF ~w.blocks[bl[i]].updated
             THEN [err |-> "AssertionError", YD |-> <<>>, calls |-> <<>>]
             ELSE IF w.blocks[bl[i]].inputs[1] = None
             THEN [err |-> "TypeError", YD |-> <<>>,
                   calls |-> << <<"deriv", bl[i], <<>>, "TypeError">> >>]
             ELSE LET rest == GatherDeriv(w, d, i + 1)
                      yd == Deriv(w.blocks[bl[i]])
                  IN [err |-> rest.err,
                      YD |-> IF rest.err = "ok" THEN yd \o rest.YD ELSE <<>>,
                      calls |-> << <<"deriv", bl[i], yd, "ok">> >> \o rest.calls]
        ELSE GatherDeriv(w, d, i + 1)

\* BlockDiagram.evaluate(x, t): the world afterwards, the exception raised
\* ("ok" for none), the derivative returned, the trace of calls
evaluate(w, d, x, t) ==
    LET w1 == ResetAll([w EXCEPT !.diagrams[d].t = t], d)
        w2 == ScatterState(w1, d, x, 1)
        e == PropagateAll([w |-> w2, err |-> "ok", trace |-> <<>>], d, 1)
        g == GatherDeriv(e.w, d, 1)
    IN  IF e.err # "ok"
        THEN [w |-> e.w, err |-> e.err, YD |-> <<>>, trace |-> e.trace]
        ELSE IF IncompleteInputs(e.w, d)
        THEN [w |-> e.w, err |-> "RuntimeError", YD |-> <<>>, trace |-> e.trace]
        ELSE [w |-> e.w, err |-> g.err, YD |-> g.YD, trace |-> e.trace \o g.calls]

RECURSIVE GetState(_, _, _)
\* BlockDiagram.getstate
GetState(w, d, i) ==
    LET bl == w.diagrams[d].blocklist
    IN  IF i > Len(bl) THEN <<>>
        ELSE IF IsTransfer(w.blocks[bl[i]])
        THEN getstate(w.blocks[bl[i]]) \o GetState(w, d, i + 1)
        ELSE GetState(w, d, i + 1)

-----------------------------------------------------------------------------
(* compile() *)

\* Block.check / TransferBlock.check: TRUE when no assertion fails
check(blk) ==
    IF IsTransfer(blk)
    THEN Len(blk.x0) = blk.nstates /\ (blk.nin > 0 \/ blk.nout > 0)
    ELSE blk.nin > 0 \/ blk.nout > 0

\* the test that selects the stateful blocks in compile()
IsStateful(blk) == blk.blockclass = "TransferBlock"

RECURSIVE StateInventory(_, _, _)
\* "visit all stateful blocks": [nstates, statenames] from the i-th block on;
\* no block of the model declares state names, so the default names are made
StateInventory(w, d, i) ==
    LET bl == w.diagrams[d].blocklist
    IN  IF i > Len(bl) THEN [nstates |-> 0, statenames |-> <<>>]
        ELSE LET blk == w.blocks[bl[i]]
                 rest == StateInventory(w, d, i + 1)
             IN IF IsStateful(blk)
                THEN [nstates |-> blk.nstates + rest.nstates,
                      statenames |-> [k \in 1..blk.nstates |-> <<blk.name, "x", k - 1>>]
                                       \o rest.statenames]
                ELSE rest

\* "for b in self.blocklist: self.blocknames[b.name] = b": the (name, block)
\* pairs of the dictionary; a later block replaces an earlier one of its name
BlockNames(w, d) ==
    LET bl == w.diagrams[d].blocklist
    IN { <<w.blocks[bl[i]].name, bl[i]>> : i \in
           { i \in 1..Len(bl) :
               \A j \in (i + 1)..Len(bl) : w.blocks[bl[j]].name # w.blocks[bl[i]].name } }

\* "b.outports = [[] for _ in range(0, b.nout)]; b.inports = [None ...]"
InitPorts(w, d) ==
    LET bl == w.diagrams[d].blocklist
        inlist == {bl[i] : i \in 1..Len(bl)}
    IN [w EXCEPT !.blocks = [b \in DOMAIN w.blocks |->
          IF b \in inlist
          THEN [w.blocks[b] EXCEPT !.outports = Repeat(<<>>, w.blocks[b].nout),
                                   !.inports = Repeat(NoWire, w.blocks[b].nin)]
          ELSE w.blocks[b]]]

\* Block.add_outport(w) for the wire at heap index wid
add_outport(blk, wid, port) ==
    IF ~(port < Len(blk.outports)) THEN [blk |-> blk, raised |-> "AssertionError"]
    ELSE IF ~PyIndexOk(port, Len(blk.outports)) THEN [blk |-> blk, raised |-> "IndexError"]
    ELSE [blk |-> [blk EXCEPT !.outports[PyPos(port, Len(blk.outports))] = Append(@, wid)],
          raised |-> "ok"]

\* add_inport without its assertion: a second wire replaces the first
add_inport_overwrite(blk, wid, port) ==
    IF ~PyIndexOk(port, Len(blk.inports)) THEN [blk |-> blk, raised |-> "IndexError"]
    ELSE [blk |-> [blk EXCEPT !.inports[PyPos(port, Len(blk.inports))] = wid],
          raised |-> "ok"]

\* Block.add_inport(w) for the wire at heap index wid
add_inport(blk, wid, port) ==
    IF ~PyIndexOk(port, Len(blk.inports)) THEN [blk |-> blk, raised |-> "IndexError"]
    ELSE IF blk.inports[PyPos(port, Len(blk.inports))] # NoWire
    THEN [blk |-> blk, raised |-> "AssertionError"]
    ELSE [blk |-> [blk EXCEPT !.inports[PyPos(port, Len(blk.inports))] = wid],
          raised |-> "ok"]

RECURSIVE LinkWires(_, _, _)
\* "for w in self.wirelist: try: add_outport; add_inport; except: error =
\* True" from the i-th wire on: the world and whether an error was seen
LinkWires(w, d, i) ==
    LET wl == w.diagrams[d].wirelist
    IN  IF i > Len(wl) THEN [w |-> w, error |-> FALSE]
        ELSE
          LET wire == w.wires[wl[i]]
              o == add_outport(w.blocks[wire.start.block], wl[i], wire.start.port)
              w1 == [w EXCEPT !.blocks[wire.start.block] = o.blk]
              n == add_inport(w1.blocks[wire.end.block], wl[i], wire.end.port)
              w2 == [w1 EXCEPT !.blocks[wire.end.block] = n.blk]
              rest == LinkWires(IF o.raised # "ok" THEN w ELSE w2, d, i + 1)
          IN [w |-> rest.w,
              error |-> rest.error \/ o.raised # "ok" \/ n.raised # "ok"]

\* the connection check looking at input 0 of each block only
UnconnectedFirstInputOnly(w, d) ==
    LET bl == w.diagrams[d].blocklist
    IN \E i \in 1..Len(bl) :
         Len(w.blocks[bl[i]].inports) >= 1 /\ w.blocks[bl[i]].inports[1] = NoWire

\* "if connection is None: ... error = True" for some input of some block
Unconnected(w, d) ==
    LET bl == w.diagrams[d].blocklist
    IN \E i \in 1..Len(bl) :
         \E p \in 1..Len(w.blocks[bl[i]].inports) : w.blocks[bl[i]].inports[p] = NoWire

\* the scan of _DFS descending into transfer blocks as well
FirstDecisiveIntoTransfer(w, start, tail) ==
    LET pairs == OutWirePairs(w.blocks[tail])
        hits == { i \in 1..Len(pairs) :
                    LET dest == w.wires[pairs[i][2]].end.block
                    IN dest = start
                       \/ w.blocks[dest].blockclass \in {"function", "transfer"} }
    IN IF hits = {} THEN 0
       ELSE pairs[CHOOSE i \in hits : \A j \in hits : i <= j][2]

\* the first wire, in the order of the two loops of _DFS, that ends the scan
\* of the block at the tail of the path: one back to start, or one into a
\* function block.  0 when the loops run to their end.
FirstDecisive(w, start, tail) ==
    LET pairs == OutWirePairs(w.blocks[tail])
        hits == { i \in 1..Len(pairs) :
                    LET dest == w.wires[pairs[i][2]].end.block
                    IN dest = start \/ w.blocks[dest].blockclass = "function" }
    IN IF hits = {} THEN 0
       ELSE pairs[CHOOSE i \in hits : \A j \in hits : i <= j][2]

RECURSIVE DFS(_, _, _)
\* _DFS(path) of compile(), path running from path[1] to its last block:
\* "cycle" for True, "none" for False, and "overflow" when the recursion
\* comes back to a block of the path other than its start: from there it
\* repeats itself until Python raises RecursionError
DFS(w, path, tail) ==
    LET start == path[1]
        wid == FirstDecisive(w, start, tail)
        dest == w.wires[wid].end.block
    IN  IF wid = 0 THEN "none"
        ELSE IF dest = start THEN "cycle"
        ELSE IF \E k \in 1..Len(path) : path[k] = dest THEN "overflow"
        ELSE DFS(w, Append(path, dest), dest)

\* the results of _DFS([b]) for the function blocks of the block list, in
\* list order
LoopSearch(w, d) ==
    LET bl == w.diagrams[d].blocklist
        fs == SelectSeq(bl, LAMBDA b : w.blocks[b].blockclass = "function")
    IN [k \in 1..Len(fs) |-> DFS(w, <<fs[k]>>, fs[k])]

\* RuntimeError and its subclasses, which "except RuntimeError" catches
IsRuntimeError(err) == err \in {"RuntimeError", "RecursionError"}

\* isinstance(b, SubsystemBlock)
IsSubsystem(blk) == blk.blockclass = "subsystem"

RECURSIVE SelectBlocks(_, _, _, _)
\* [b for b in bl if (b.type in types) == keep]
SelectBlocks(w, bl, types, keep) ==
    IF bl = <<>> THEN <<>>
    ELSE (IF (w.blocks[Head(bl)].type \in types) = keep THEN <<Head(bl)>> ELSE <<>>)
            \o SelectBlocks(w, Tail(bl), types, keep)

RECURSIVE SelectWires(_, _, _, _)
\* [w for w in wl if w.<side>.block != b]
SelectWires(w, wl, side, b) ==
    IF wl = <<>> THEN <<>>
    ELSE (IF (IF side = "end" THEN w.wires[Head(wl)].end.block
                              ELSE w.wires[Head(wl)].start.block) # b
          THEN <<Head(wl)>> ELSE <<>>)
            \o SelectWires(w, Tail(wl), side, b)

\* '/'.join(path + [name])
JoinPath(path, name) ==
    Flatten([i \in 1..Len(path) |-> path[i] \o <<"/">>]) \o name

RECURSIVE RerouteIn(_, _, _, _, _)
\* "connect the input port": every wire of the diagram that ends at the
\* subsystem block hands its start to the wires leaving the inport there
RerouteIn(w, d, subsys, inport, i) ==
    LET wl == w.diagrams[d].wirelist
    IN  IF i > Len(wl) THEN [w |-> w, raised |-> "ok"]
        ELSE LET tw == w.wires[wl[i]]
                 outs == w.blocks[inport].outports
             IN  IF tw.end.block # subsys THEN RerouteIn(w, d, subsys, inport, i + 1)
                 ELSE IF ~PyIndexOk(tw.end.port, Len(outs))
                 THEN [w |-> w, raised |-> "IndexError"]
                 ELSE LET lst == outs[PyPos(tw.end.port, Len(outs))]
                          hit == {lst[k] : k \in 1..Len(lst)}
                      IN RerouteIn(
                           [w EXCEPT !.wires = [k \in DOMAIN w.wires |->
                               IF k \in hit
                               THEN [w.wires[k] EXCEPT !.start.block = tw.start.block,
                                                       !.start.port = tw.start.port]
                               ELSE w.wires[k]]],
                           d, subsys, inport, i + 1)

RECURSIVE RerouteOut(_, _, _, _, _)
\* "connect the output port": every wire of the diagram that starts at the
\* subsystem block hands its end to the one wire entering the outport there
RerouteOut(w, d, subsys, outport, i) ==
    LET wl == w.diagrams[d].wirelist
    IN  IF i > Len(wl) THEN [w |-> w, raised |-> "ok"]
        ELSE LET tw == w.wires[wl[i]]
                 ins == w.blocks[outport].inports
             IN  IF tw.start.block # subsys THEN RerouteOut(w, d, subsys, outport, i + 1)
                 ELSE IF ~PyIndexOk(tw.start.port, Len(ins))
                 THEN [w |-> w, raised |-> "IndexError"]
                 ELSE LET w2 == ins[PyPos(tw.start.port, Len(ins))]
                      IN IF w2 = NoWire THEN [w |-> w, raised |-> "AttributeError"]
                         ELSE RerouteOut(
                                [w EXCEPT !.wires[w2].end.block = tw.end.block,
                                          !.wires[w2].end.port = tw.end.port],
                                d, subsys, outport, i + 1)

\* list.remove(b): the list without the first b
ListRemove(lst, b) ==
    LET k == CHOOSE i \in 1..Len(lst) : lst[i] = b /\ \A j \in 1..(i - 1) : lst[j] # b
    IN [i \in 1..(Len(lst) - 1) |-> IF i < k THEN lst[i] ELSE lst[i + 1]]

RECURSIVE AddOthers(_, _, _, _)
\* "for b in others: self.add_block(b); b.name = '/'.join(path + [b.name])"
AddOthers(w, d, others, path) ==
    IF others = <<>> THEN w
    ELSE LET b == Head(others)
             w1 == add_block(w, d, b)
         IN AddOthers([w1 EXCEPT !.blocks[b].name = JoinPath(path, w1.blocks[b].name)],
                      d, Tail(others), path)

\* _flatten from "self.blocklist.remove(subsys)" on
SpliceBlocks(w, d, subsys, others, path) ==
    LET sub == w.blocks[subsys].subsystem
        bl == w.diagrams[d].blocklist
    IN  IF \A k \in 1..Len(bl) : bl[k] # subsys
        THEN [w |-> w, raised |-> "ValueError"]
        ELSE LET w4 == AddOthers([w EXCEPT !.diagrams[d].blocklist =
                                     ListRemove(bl, subsys)],
                                 d, others, path)
             IN [w |-> [w4 EXCEPT !.diagrams[d].wirelist =
                           @ \o w4.diagrams[sub].wirelist],
                 raised |-> "ok"]

\* _flatten from "connect the output port" on
SpliceOut(w, d, subsys, outports, others, path) ==
    IF outports = <<>> THEN [w |-> w, raised |-> "IndexError"]
    ELSE LET r2 == RerouteOut(w, d, subsys, outports[1], 1)
         IN  IF r2.raised # "ok" THEN r2
             ELSE SpliceBlocks(
                    [r2.w EXCEPT !.diagrams[d].wirelist =
                        SelectWires(r2.w, r2.w.diagrams[d].wirelist, "start", subsys)],
                    d, subsys, others, path)

\* _flatten from "sort the subsystem blocks into categories" on
Splice(w, d, subsys, path) ==
    LET sub == w.blocks[subsys].subsystem
        sbl == w.diagrams[sub].blocklist
        inports == SelectBlocks(w, sbl, {"inport"}, TRUE)
        outports == SelectBlocks(w, sbl, {"outport"}, TRUE)
        others == SelectBlocks(w, sbl, {"inport", "outport"}, FALSE)
    IN  IF Len(inports) > 1 \/ Len(outports) > 1 \/ (inports = <<>> /\ outports = <<>>)
        THEN [w |-> w, raised |-> "ImportError"]
        ELSE IF inports = <<>> THEN [w |-> w, raised |-> "IndexError"]
        ELSE LET r1 == RerouteIn(w, d, subsys, inports[1], 1)
             IN  IF r1.raised # "ok" THEN r1
                 ELSE SpliceOut(
                        [r1.w EXCEPT !.diagrams[d].wirelist =
                            SelectWires(r1.w, r1.w.diagrams[d].wirelist, "end", subsys)],
                        d, subsys, outports, others, path)

\* BlockDiagram.compile() of diagram d from "run block specific checks" on,
\* in the world w0 that flattening left
CompileChecks(w0, d) ==
    LET bl == w0.diagrams[d].blocklist
        checked == \A i \in 1..Len(bl) : check(w0.blocks[bl[i]])
        inv == StateInventory(w0, d, 1)
        w1 == [w0 EXCEPT !.diagrams[d].blocknames = BlockNames(w0, d),
                         !.diagrams[d].nstates = inv.nstates,
                         !.diagrams[d].statenames = inv.statenames]
        lk == LinkWires(InitPorts(w1, d), d, 1)
        w2 == lk.w
        unconn == Unconnected(w2, d)
        loops == LoopSearch(w2, d)
        overflow == \E k \in 1..Len(loops) : loops[k] = "overflow"
        cycle == \E k \in 1..Len(loops) :
                   loops[k] = "cycle" /\ \A j \in 1..k : loops[j] # "overflow"
        ev == evaluate(w2, d, GetState(w2, d, 1), "0")
        error == lk.error \/ unconn \/ cycle \/ IsRuntimeError(ev.err)
        reports == (IF lk.error THEN {"wire"} ELSE {})
                   \cup (IF unconn THEN {"unconnected"} ELSE {})
                   \cup (IF cycle THEN {"cycle"} ELSE {})
        nodry == [err |-> "notrun", YD |-> <<>>, trace |-> <<>>]
    IN  IF ~checked
        THEN [w |-> w0, raised |-> "RuntimeError", ret |-> FALSE, reports |-> {},
              dry |-> nodry]
        ELSE IF overflow
        THEN [w |-> w2, raised |-> "RecursionError", ret |-> FALSE,
              reports |-> reports, dry |-> nodry]
        ELSE IF ev.err # "ok" /\ ~IsRuntimeError(ev.err)
        THEN [w |-> ev.w, raised |-> ev.err, ret |-> FALSE, reports |-> reports,
              dry |-> [err |-> ev.err, YD |-> ev.YD, trace |-> ev.trace]]
        ELSE [w |-> [ev.w EXCEPT !.diagrams[d].compiled = IF error THEN @ ELSE TRUE],
              raised |-> "ok",
              ret |-> IF error THEN w0.diagrams[d].compiled ELSE TRUE,
              reports |-> reports \cup (IF IsRuntimeError(ev.err) THEN {"dryrun"} ELSE {}),
              dry |-> [err |-> ev.err, YD |-> ev.YD, trace |-> ev.trace]]

RECURSIVE compile(_, _)
RECURSIVE flatten(_, _, _, _)
RECURSIVE FlattenEach(_, _, _, _, _)
\* "for ss in subsystems: self._flatten(ss, path + [ss.name])" and, with
\* nested = FALSE, "for b in ssblocks: self._flatten(b, [b.name])"
FlattenEach(w, d, sss, path, nested) ==
    IF sss = <<>> THEN [w |-> w, raised |-> "ok"]
    ELSE LET r == flatten(w, d, Head(sss),
                          IF nested THEN Append(path, w.blocks[Head(sss)].name)
                          ELSE <<w.blocks[Head(sss)].name>>)
         IN IF r.raised # "ok" THEN r
            ELSE FlattenEach(r.w, d, Tail(sss), path, nested)

\* BlockDiagram._flatten(subsys, path) of diagram d
flatten(w, d, subsys, path) ==
    LET sub == w.blocks[subsys].subsystem
        r0 == FlattenEach(w, d,
                 SelectBlocks(w, w.diagrams[sub].blocklist, {"subsystem"}, TRUE),
                 path, TRUE)
    IN  IF r0.raised # "ok" THEN r0
        ELSE IF r0.w.diagrams[sub].compiled THEN Splice(r0.w, d, subsys, path)
        ELSE LET c == compile(r0.w, sub)
             IN IF c.raised # "ok" THEN [w |-> c.w, raised |-> c.raised]
                ELSE IF ~c.ret THEN [w |-> c.w, raised |-> "ImportError"]
                ELSE Splice(c.w, d, subsys, path)

RECURSIVE SubsystemBlocks(_, _)
\* [b for b in self.blocklist if isinstance(b, SubsystemBlock)]
SubsystemBlocks(w, bl) ==
    IF bl = <<>> THEN <<>>
    ELSE (IF IsSubsystem(w.blocks[Head(bl)]) THEN <<Head(bl)>> ELSE <<>>)
            \o SubsystemBlocks(w, Tail(bl))

\* BlockDiagram.compile() of diagram d:
\*   w       the world afterwards
\*   raised  the exception compile() ends with, "ok" when it returns
\*   ret     the value returned
\*   reports what was printed: "wire", "unconnected", "cycle", "dryrun"
\*   dry     the outcome of the evaluate(x0, 0) it made, if it came to it
compile(w, d) ==
    LET wc == [w EXCEPT !.diagrams[d].nstates = 0,
                        !.diagrams[d].statenames = <<>>,
                        !.diagrams[d].blocknames = {}]
        fl == FlattenEach(wc, d, SubsystemBlocks(wc, wc.diagrams[d].blocklist),
                          <<>>, FALSE)
    IN  IF fl.raised # "ok"
        THEN [w |-> fl.w, raised |-> fl.raised, ret |-> FALSE, reports |-> {},
              dry |-> [err |-> "notrun", YD |-> <<>>, trace |-> <<>>]]
        ELSE CompileChecks(fl.w, d)

-----------------------------------------------------------------------------
(* The calling script: it builds a diagram, compiles it once and, when     *)
(* compile() returned True, evaluates it for state vectors and times.      *)

\* the blocks the script can create
CONSTANT_ == SourceBlock("constant", 1, "1")
SCOPE == SinkBlock("scope", 1)
GAIN == FunctionBlock("gain", 1, 1)
SUM == FunctionBlock("sum", 2, 1)
INTEGRATOR == TransferBlock("integrator", 1, 1, <<"0">>)

Library == {CONSTANT_, SCOPE, GAIN, SUM, INTEGRATOR}

\* the input ports the script names in connect()
InPorts == {0, 1}

\* the times the script evaluates at
Times == {"1"}

NoResult ==
    [op |-> "none", raised |-> "ok", ret |-> FALSE, reports |-> {},
     err |-> "notrun", YD |-> <<>>, trace |-> <<>>, x |-> <<>>,
     args |-> <<>>, before |-> <<>>, name |-> None]

Init ==
    /\ blocks = <<>>
    /\ wires = <<>>
    /\ diagrams = <<NewDiagram>>
    /\ pc = "build"
    /\ result = NoResult

SetWorld(w) ==
    /\ blocks' = w.blocks
    /\ wires' = w.wires
    /\ diagrams' = w.diagrams

\* bd.GAIN(...) and the like: construct a block and add it to the diagram
AddBlock(tpl) ==
    /\ pc = "build"
    /\ Len(diagrams[Top].blocklist) < MaxBlocks
    /\ SetWorld(add_block([World EXCEPT !.blocks = Append(blocks, tpl)], Top,
                          Len(blocks) + 1))
    /\ UNCHANGED <<pc, result>>

\* bd.connect(args, name=name)
ConnectNamed(args, name) ==
    /\ pc = "build"
    /\ Len(diagrams[Top].wirelist) < MaxWires
    /\ \E r \in {connect(World, Top, args, name)} :
          /\ SetWorld(r.w)
          /\ result' = [NoResult EXCEPT !.op = "connect",
                           !.raised = IF r.raised THEN "AssertionError" ELSE "ok",
                           !.args = args, !.before = diagrams[Top].wirelist,
                           !.name = name]
    /\ UNCHANGED pc

\* bd.connect(args)
Connect(args) == ConnectNamed(args, None)

\* bd.compile()
Compile ==
    /\ pc = "build"
    /\ \E r \in {compile(World, Top)} :
          /\ SetWorld(r.w)
          /\ result' = [NoResult EXCEPT !.op = "compile", !.raised = r.raised,
                           !.ret = r.ret, !.reports = r.reports, !.err = r.dry.err,
                           !.YD = r.dry.YD, !.trace = r.dry.trace,
                           !.x = GetState(World, Top, 1)]
          /\ pc' = IF r.raised = "ok" /\ r.ret THEN "compiled" ELSE "failed"

\* the state dimension of the diagram: the states of its transfer blocks
StateDim(w, d) ==
    LET bl == w.diagrams[d].blocklist
    IN SumSeq([i \in 1..Len(bl) |->
                 IF IsTransfer(w.blocks[bl[i]]) THEN w.blocks[bl[i]].nstates ELSE 0])

\* bd.evaluate(x, t)
Evaluate(x, t) ==
    /\ pc = "compiled"
    /\ \E r \in {evaluate(World, Top, x, t)} :
          /\ SetWorld(r.w)
          /\ result' = [NoResult EXCEPT !.op = "evaluate", !.raised = r.err,
                           !.err = r.err, !.YD = r.YD, !.trace = r.trace, !.x = x]
    /\ UNCHANGED pc

Next ==
    \/ \E tpl \in Library : AddBlock(tpl)
    \/ \E s \in 1..Len(blocks) : \E e \in 1..Len(blocks) : \E p \in InPorts :
          /\ blocks[s].nout > 0
          /\ p < blocks[e].nin
          /\ Connect(<<BlockArg(s), PlugArg(e, p)>>)
    \/ Compile
    \/ \E t \in Times :
          \E x \in [1..StateDim(World, Top) -> FiniteVals] : Evaluate(x, t)

Spec == Init /\ [][Next]_vars

-----------------------------------------------------------------------------
(* The wired graph, for the statements about cycles and drivers *)

\* the blocks of the block list
BlockSet(w, d) ==
    {w.diagrams[d].blocklist[i] : i \in 1..Len(w.diagrams[d].blocklist)}

\* the wires of the wire list
WireSet(w, d) ==
    {w.wires[w.diagrams[d].wirelist[i]] : i \in 1..Len(w.diagrams[d].wirelist)}

\* the blocks of S that a wire leads to from block a
Succ(w, d, S, a) ==
    {b \in S : \E wr \in WireSet(w, d) : wr.start.block = a /\ wr.end.block = b}

RECURSIVE ReachN(_, _, _, _, _)
\* the blocks of S reached from the set F within n more wires, inside S
ReachN(w, d, S, F, n) ==
    IF n = 0 THEN F
    ELSE ReachN(w, d, S, F \cup UNION {Succ(w, d, S, a) : a \in F}, n - 1)

\* some cycle of wires runs through blocks of S only
HasCycleWithin(w, d, S) ==
    \E a \in S : a \in ReachN(w, d, S, Succ(w, d, S, a), Cardinality(S))

FunctionBlocks(w, d) == {b \in BlockSet(w, d) : w.blocks[b].blockclass = "function"}
NonTransferBlocks(w, d) == {b \in BlockSet(w, d) : ~IsTransfer(w.blocks[b])}

\* the number of wires of the wire list that end at input port p of block b
Drivers(w, d, b, p) ==
    Cardinality({i \in 1..Len(w.diagrams[d].wirelist) :
                    LET wr == w.wires[w.diagrams[d].wirelist[i]]
                    IN wr.end.block = b /\ wr.end.port = p})

\* every wire names ports its blocks have, and every input port of every
\* block is driven by exactly one wire; all blocks pass check()
WellWired(w, d) ==
    /\ \A wr \in WireSet(w, d) :
          /\ wr.start.port \in 0..(w.blocks[wr.start.block].nout - 1)
          /\ wr.end.port \in 0..(w.blocks[wr.end.block].nin - 1)
    /\ \A b \in BlockSet(w, d) :
          /\ check(w.blocks[b])
          /\ \A p \in 0..(w.blocks[b].nin - 1) : Drivers(w, d, b, p) = 1

Compiled == diagrams[Top].compiled

-----------------------------------------------------------------------------
(* The same script with a source that emits NaN and the finite-check flag  *)
(* set either way before compiling                                         *)

NANSOURCE == SourceBlock("constant", 1, NaN)

FiniteLibrary == {NANSOURCE, GAIN, SCOPE}

\* bd.checkfinite = v
SetCheckFinite(v) ==
    /\ pc = "build"
    /\ diagrams[Top].checkfinite # v
    /\ diagrams' = [diagrams EXCEPT ![Top].checkfinite = v]
    /\ UNCHANGED <<blocks, wires, pc, result>>

NextFinite ==
    \/ \E tpl \in FiniteLibrary : AddBlock(tpl)
    \/ \E s \in 1..Len(blocks) : \E e \in 1..Len(blocks) : \E p \in InPorts :
          /\ blocks[s].nout > 0
          /\ p < blocks[e].nin
          /\ Connect(<<BlockArg(s), PlugArg(e, p)>>)
    \/ \E v \in BOOLEAN : SetCheckFinite(v)
    \/ Compile
    \/ \E t \in Times :
          \E x \in [1..StateDim(World, Top) -> FiniteVals] : Evaluate(x, t)

SpecFinite == Init /\ [][NextFinite]_vars

-----------------------------------------------------------------------------
(* Claims *)

\* an evaluate() has run: the caller's, or the dry run inside compile()
Evaluated == result.op \in {"compile", "evaluate"} /\ result.err # "notrun"

\* C1 (connectivity closure): in a diagram that compile() marked compiled,
\* every block has an inports slot for each of its nin inputs and every slot
\* holds a wire.
C1_ConnectivityClosure ==
    Compiled =>
       \A b \in BlockSet(World, Top) :
          /\ Len(blocks[b].inports) = blocks[b].nin
          /\ \A i \in 1..blocks[b].nin : blocks[b].inports[i] # NoWire

\* a compiled diagram with a two-input block and three blocks in all
C1_Witness ==
    /\ Compiled
    /\ Len(diagrams[Top].blocklist) = 3
    /\ \E b \in BlockSet(World, Top) : blocks[b].nin = 2

C3_LoopDetectionComplete ==
    (result.op = "compile" /\ HasCycleWithin(World, Top, FunctionBlocks(World, Top)))
       => ~Compiled

\* C4 (loop detection soundness): when compile() has run on a diagram whose
\* blocks pass check(), whose inputs each have exactly one driver and whose
\* cycles all pass through a transfer block, it has returned without an
\* exception, has reported no cycle and has marked the diagram compiled.
C4_LoopDetectionSound ==
    (/\ result.op = "compile"
     /\ WellWired(World, Top)
     /\ ~HasCycleWithin(World, Top, NonTransferBlocks(World, Top)))
    => (result.raised = "ok" /\ "cycle" \notin result.reports /\ Compiled)

\* a compiled diagram with a cycle, which passes through a transfer block and
\* a function block
C4_Witness ==
    /\ result.op = "compile"
    /\ WellWired(World, Top)
    /\ HasCycleWithin(World, Top, BlockSet(World, Top))
    /\ ~HasCycleWithin(World, Top, NonTransferBlocks(World, Top))
    /\ FunctionBlocks(World, Top) # {}
    /\ \A b \in FunctionBlocks(World, Top) :
          b \in ReachN(World, Top, BlockSet(World, Top),
                       Succ(World, Top, BlockSet(World, Top), b), 3)
    /\ Compiled

\* C5 (state inventory): after a compile() that marked the diagram compiled,
\* diagram.nstates is the sum of nstates over the transfer blocks and the
\* state-name list has that many entries.
C5_StateInventory ==
    (result.op = "compile" /\ Compiled) =>
       /\ diagrams[Top].nstates = StateDim(World, Top)
       /\ Len(diagrams[Top].statenames) = diagrams[Top].nstates

\* C6 (derivative length): the vector evaluate(x, t) returns on a compiled
\* diagram has diagram.nstates elements.
C6_DerivativeLength ==
    (result.op = "evaluate" /\ result.raised = "ok") =>
       Len(result.YD) = diagrams[Top].nstates

\* C7 (gather/scatter round trip): after evaluate(x, t) on a compiled
\* diagram, getstate() returns x.
C7_RoundTrip ==
    (result.op = "evaluate" /\ result.raised = "ok") =>
       GetState(World, Top, 1) = result.x

\* C8 (incomplete inputs are detected): an evaluate() that ended without an
\* exception leaves no block with nin > 0 and updated = false.
C8_IncompleteInputsDetected ==
    (Evaluated /\ result.err = "ok") =>
       \A b \in BlockSet(World, Top) : blocks[b].nin > 0 => blocks[b].updated

\* C9 (single pass suffices): after an evaluate() on a compiled diagram
\* every block with nin > 0 has all its inputs defined and updated = true.
C9_SinglePassSuffices ==
    (Compiled /\ Evaluated) =>
       \A b \in BlockSet(World, Top) :
          blocks[b].nin > 0 =>
             /\ blocks[b].updated
             /\ Len(blocks[b].inputs) = blocks[b].nin
             /\ \A i \in 1..Len(blocks[b].inputs) : blocks[b].inputs[i] # None

\* C10 (finite check): with checkfinite set, an evaluate() in which a block's
\* output list held a NaN ended with the non-finite RuntimeError.
C10_FiniteCheck ==
    (/\ Evaluated
     /\ diagrams[Top].checkfinite
     /\ \E k \in 1..Len(result.trace) :
           /\ result.trace[k][1] = "output"
           /\ \E i \in 1..Len(result.trace[k][3]) : result.trace[k][3][i] = NaN)
    => result.err = "RuntimeError"


\* C11 (propagation determinism): evaluate(x, t) on a compiled diagram makes
\* the same calls to output and send in the same order and returns the same
\* derivative whatever state vector the evaluation before it was given.
C11_PropagationDeterminism ==
    pc = "compiled" =>
       \A t \in Times :
          \A x, x2 \in [1..StateDim(World, Top) -> FiniteVals] :
             LET Seen(r) == <<r.err, r.YD, r.trace>>
             IN  Seen(evaluate(World, Top, x, t))
                    = Seen(evaluate(evaluate(World, Top, x2, t).w, Top, x, t))

\* evaluate([1], t) has run on a diagram compiled with state [0] in which a
\* two-input block was completed and a derivative was gathered
C11_Witness ==
    /\ result.op = "evaluate"
    /\ result.x = <<"1">>
    /\ result.YD = <<"1">>
    /\ \E b \in BlockSet(World, Top) : blocks[b].nin = 2 /\ blocks[b].updated

\* the i-th entry of the block list has id i and the j-th entry of the wire
\* list has id j, counting from 0
DenseIds(w, d) ==
    /\ \A i \in 1..Len(w.diagrams[d].blocklist) :
          w.blocks[w.diagrams[d].blocklist[i]].id = i - 1
    /\ \A j \in 1..Len(w.diagrams[d].wirelist) :
          w.wires[w.diagrams[d].wirelist[j]].id = j - 1

\* C12 (id density during construction): while the diagram is being built
\* by add_block and connect calls, the i-th block of the block list has id i
\* and the j-th wire of the wire list has id j (from 0).
C12_IdDensityBuild == pc = "build" => DenseIds(World, Top)

\* three blocks and three wires have been added and compile() has not run
C12_Witness ==
    /\ pc = "build"
    /\ Len(diagrams[Top].blocklist) = 3
    /\ Len(diagrams[Top].wirelist) = 3

-----------------------------------------------------------------------------
(* A script that creates blocks with and without explicit names            *)

\* Block._fixname: the name without the characters $ \ { } ^ _
fixname(name) == IF name = <<"x_1">> THEN <<"x1">> ELSE name

\* Block.__init__(name=name) on a block of the library
Named(tpl, name) == [tpl EXCEPT !.name_tex = name, !.name = fixname(name)]

\* the names the script gives: one with a removed character, and one that
\* reads like the default name "gain.0"
ExplicitNames == {<<"x_1">>, <<"gain", 0>>}

\* bd.GAIN(..., name=name)
AddNamedBlock(tpl, name) == AddBlock(Named(tpl, name))

NextNames ==
    \/ \E tpl \in Library : AddBlock(tpl)
    \/ \E tpl \in Library : \E name \in ExplicitNames : AddNamedBlock(tpl, name)

SpecNames == Init /\ [][NextNames]_vars

\* C14 (default naming): a block of type T created without a name is called
\* T.n, where n is the number of blocks of type T created without a name
\* before it; blocks of other types and named blocks do not advance n.
C14_DefaultNaming ==
    \A i \in 1..Len(diagrams[Top].blocklist) :
       LET blk == blocks[diagrams[Top].blocklist[i]]
       IN blk.name_tex = NoName =>
             blk.name = <<blk.type, Cardinality({j \in 1..(i - 1) :
                              /\ blocks[diagrams[Top].blocklist[j]].type = blk.type
                              /\ blocks[diagrams[Top].blocklist[j]].name_tex = NoName})>>

\* an unnamed block, then a named block of the same type, then an unnamed one
C14_Witness ==
    /\ Len(diagrams[Top].blocklist) = 3
    /\ \A i \in 1..3 : blocks[diagrams[Top].blocklist[i]].type = "gain"
    /\ blocks[diagrams[Top].blocklist[1]].name_tex = NoName
    /\ blocks[diagrams[Top].blocklist[2]].name_tex = <<"x_1">>
    /\ blocks[diagrams[Top].blocklist[3]].name = <<"gain", 1>>

-----------------------------------------------------------------------------
(* A script that wires multi-port blocks with one connect() call, given a  *)
(* block, a plug or a slice at the start and at each of one or two ends    *)

DEMUX == FunctionBlock("demux", 1, 3)
MUX == FunctionBlock("mux", 2, 1)

ConnectLibrary == {DEMUX, MUX}

\* the slices the script takes: (start, stop, step), step 0 for none
Slices == {<<0, 2, 0>>, <<0, 3, 0>>, <<1, 3, 0>>, <<0, 3, 2>>}

\* b, b[p] and b[lo:hi:step] for a block b
PlugsOf(b) ==
    {BlockArg(b)} \cup {PlugArg(b, p) : p \in InPorts}
       \cup {SliceArg(b, sl[1], sl[2], sl[3]) : sl \in Slices}

\* every such argument for every block created so far
AllPlugs == UNION {PlugsOf(b) : b \in 1..Len(blocks)}

\* the names the script gives to wires
WireNames == {"sig"}

\* bd.connect(start, end, ...), the first and only connect() of the script
ConnectCall(args) ==
    /\ result.op = "none"
    /\ Connect(args)

NextConnect ==
    \/ \E tpl \in ConnectLibrary : AddBlock(tpl)
    \/ /\ result.op = "none"
       /\ \E start \in AllPlugs : \E end \in AllPlugs : ConnectCall(<<start, end>>)
    \/ /\ result.op = "none"
       /\ \E start \in AllPlugs : \E end \in AllPlugs : \E n \in WireNames :
             ConnectNamed(<<start, end>>, n)
    \/ /\ result.op = "none"
       /\ \E start \in AllPlugs : \E e1 \in AllPlugs : \E e2 \in AllPlugs :
             ConnectCall(<<start, e1, e2>>)

SpecConnect == Init /\ [][NextConnect]_vars

\* the wires the last connect() call left in the wire list
Added == [i \in 1..(Len(diagrams[Top].wirelist) - Len(result.before)) |->
             wires[diagrams[Top].wirelist[Len(result.before) + i]]]

\* the wire list still begins with what it held before the last call
KeepsBefore ==
    /\ Len(diagrams[Top].wirelist) >= Len(result.before)
    /\ \A i \in 1..Len(result.before) : diagrams[Top].wirelist[i] = result.before[i]

\* the last call was connect(start, end) with one end
OneEnd == result.op = "connect" /\ Len(result.args) = 2

\* C15 (slice to block): connect(src[a:b:s], sink) with sink a bare block of
\* nin = k inputs and a slice of k ports appends exactly k wires, the i-th
\* from the i-th port of the slice (step respected) to input i of sink.
C15_SliceToBlock ==
    (/\ OneEnd
     /\ isslice(result.args[1])
     /\ result.args[2].sel = "block"
     /\ width(result.args[1]) = blocks[result.args[2].block].nin)
    => /\ result.raised = "ok"
       /\ KeepsBefore
       /\ Len(Added) = width(result.args[1])
       /\ \A i \in 1..Len(Added) :
             /\ Added[i].start = WirePlug(PlugArg(result.args[1].block,
                                                  portlist(result.args[1])[i]))
             /\ Added[i].end = WirePlug(PlugArg(result.args[2].block, i - 1))

\* connect(demux[0:3:2], mux) has added its two wires
C15_Witness ==
    /\ OneEnd
    /\ isslice(result.args[1])
    /\ result.args[1].step = 2
    /\ result.args[2].sel = "block"
    /\ result.raised = "ok"
    /\ Len(Added) = 2
    /\ Added[2].start.port = 2
    /\ Added[2].end.port = 1

\* C16 (slice to slice): after a connect() call that returned, no wire of
\* the wire list has a slice for a port at either end, whatever the call was
\* given; a slice-to-slice call of equal widths has added one wire per pair
\* of ports.
C16_SliceToSlice ==
    (result.op = "connect" /\ result.raised = "ok") =>
       /\ \A i \in 1..Len(Added) : Added[i].start.slice = <<>> /\ Added[i].end.slice = <<>>
       /\ (/\ Len(result.args) = 2
           /\ isslice(result.args[1]) /\ isslice(result.args[2]))
          => /\ Len(Added) = width(result.args[1])
             /\ \A i \in 1..Len(Added) :
                   /\ Added[i].start.port = portlist(result.args[1])[i]
                   /\ Added[i].end.port = portlist(result.args[2])[i]

\* C17 (bundle width mismatch): a connect(src, snk) call whose slice source
\* and slice or bare-block sink differ in width fails inside connect and
\* adds no wire.
C17_WidthMismatch ==
    (/\ OneEnd
     /\ isslice(result.args[1])
     /\ \/ isslice(result.args[2]) /\ width(result.args[1]) # width(result.args[2])
        \/ /\ result.args[2].sel = "block"
           /\ width(result.args[1]) # blocks[result.args[2].block].nin)
    => (result.raised = "AssertionError" /\ Added = <<>> /\ KeepsBefore)

\* connect(demux[0:3], mux) has failed: three ports against two inputs
C17_Witness ==
    /\ OneEnd
    /\ isslice(result.args[1]) /\ width(result.args[1]) = 3
    /\ result.args[2].sel = "block" /\ blocks[result.args[2].block].nin = 2
    /\ result.raised = "AssertionError"

\* C18 (failed calls are atomic): after a connect() call that failed, the
\* wire list is what it was before the call.
C18_FailedConnectAtomic ==
    (result.op = "connect" /\ result.raised # "ok") =>
       diagrams[Top].wirelist = result.before

-----------------------------------------------------------------------------
(* A script that builds sub-diagrams, wraps them in subsystem blocks and   *)
(* compiles the top diagram.  The inport and outport pseudo-blocks of the  *)
(* library are taken as a source-like block (outputs only, emitting None)  *)
(* and a sink-like block (inputs only); a subsystem block has one input    *)
(* and one output and refers to its sub-diagram.                           *)

MaxDiagrams == 3
MaxHeapBlocks == 5
MaxHeapWires == 3
MaxNestedBlocks == 6

INPORT == SourceBlock("inport", 1, None)
OUTPORT == SinkBlock("outport", 1)
SUBSYSTEM(sub) ==
    [NewBlock("subsystem", "subsystem", 1, 1, 0, <<>>, None) EXCEPT !.subsystem = sub]

TopLibrary == {CONSTANT_, SCOPE}
SubLibrary == {INPORT, OUTPORT, GAIN}

\* sub = BlockDiagram()
NewSub ==
    /\ pc = "build"
    /\ Len(diagrams) < MaxDiagrams
    /\ diagrams' = Append(diagrams, NewDiagram)
    /\ UNCHANGED <<blocks, wires, pc, result>>

\* d.GAIN(...) and the like, on any diagram of the script
AddBlockTo(d, tpl) ==
    /\ pc = "build"
    /\ Len(diagrams[d].blocklist) < MaxBlocks
    /\ SetWorld(add_block([World EXCEPT !.blocks = Append(blocks, tpl)], d,
                          Len(blocks) + 1))
    /\ UNCHANGED <<pc, result>>

\* the sub-diagrams no subsystem block refers to yet
Unwrapped == {sub \in 2..Len(diagrams) :
                 \A b \in 1..Len(blocks) : blocks[b].subsystem # sub}

\* the diagram the script is building: the newest sub-diagram not yet
\* wrapped in a subsystem block, the top diagram when there is none
Current == IF Unwrapped = {} THEN Top
           ELSE CHOOSE sub \in Unwrapped : \A o \in Unwrapped : o <= sub

\* the diagram that gets the subsystem block around the current one
Parent == IF Unwrapped \ {Current} = {} THEN Top
          ELSE CHOOSE sub \in Unwrapped \ {Current} :
                  \A o \in Unwrapped \ {Current} : o <= sub

\* parent.SUBSYSTEM(current): the current sub-diagram is wrapped in a
\* subsystem block of the diagram it was opened from
AddSubsystem ==
    /\ Current # Top
    /\ AddBlockTo(Parent, SUBSYSTEM(Current))

\* current.connect(blocks[s], blocks[e][p]) between two blocks of the
\* diagram being built
ConnectIn(d, s, e, p) ==
    /\ pc = "build"
    /\ Len(wires) < MaxHeapWires
    /\ blocks[s].bd = d /\ blocks[e].bd = d
    /\ blocks[s].nout > 0
    /\ p < blocks[e].nin
    /\ \E r \in {connect(World, d, <<BlockArg(s), PlugArg(e, p)>>, None)} :
          /\ SetWorld(r.w)
          /\ result' = [NoResult EXCEPT !.op = "connect",
                           !.raised = IF r.raised THEN "AssertionError" ELSE "ok"]
    /\ UNCHANGED pc

NextSub ==
    \/ NewSub
    \/ Len(blocks) < MaxHeapBlocks /\ Current = Top
          /\ \E tpl \in TopLibrary : AddBlockTo(Top, tpl)
    \/ Len(blocks) < MaxHeapBlocks /\ Current # Top
          /\ \E tpl \in SubLibrary : AddBlockTo(Current, tpl)
    \/ Len(blocks) < MaxHeapBlocks /\ AddSubsystem
    \/ \E s \in 1..Len(blocks) : \E e \in 1..Len(blocks) : ConnectIn(Current, s, e, 0)
    \/ Current = Top /\ Compile

SpecSub == Init /\ [][NextSub]_vars

\* the subsystem blocks the script put into diagram d
SubsystemsOf(d) == {b \in 1..Len(blocks) : IsSubsystem(blocks[b]) /\ blocks[b].bd = d}

\* C13: once compile() has succeeded, flattening included, the ids of the
\* blocks of the block list are exactly 0..len-1 in list order and so are
\* the ids of the wires of the wire list.
C13_IdDensityAlways == Compiled => DenseIds(World, Top)

\* C20: after compile() has flattened the diagram, every destination (D, q)
\* that a top-level wire connected to an output of a subsystem block is
\* still driven by a wire of the wire list, however many wires left that
\* output.
C20_FlattenKeepsDrivers ==
    (result.op = "compile" /\ result.raised = "ok") =>
        \A i \in 1..Len(wires) :
            (/\ wires[i].start.block \in SubsystemsOf(Top)
             /\ ~IsSubsystem(blocks[wires[i].end.block]))
            => \E k \in 1..Len(diagrams[Top].wirelist) :
                  LET wr == wires[diagrams[Top].wirelist[k]]
                  IN  /\ wr.end.block = wires[i].end.block
                      /\ wr.end.port = wires[i].end.port

-----------------------------------------------------------------------------
\* Scripts that nest subsystems: every diagram below the top one gets
\* inport and outport pseudo-blocks and subsystem blocks only.

PortLibrary == {INPORT, OUTPORT}

NextNested ==
    \/ NewSub
    \/ Len(blocks) < MaxNestedBlocks /\ Current # Top
          /\ \E tpl \in PortLibrary : AddBlockTo(Current, tpl)
    \/ Len(blocks) < MaxNestedBlocks /\ AddSubsystem
    \/ \E s \in 1..Len(blocks) : \E e \in 1..Len(blocks) : ConnectIn(Current, s, e, 0)
    \/ Current = Top /\ Compile

SpecNested == Init /\ [][NextNested]_vars

\* the blocks of the given type in the block list of diagram d
OfType(d, type) == {i \in 1..Len(diagrams[d].blocklist) :
                      blocks[diagrams[d].blocklist[i]].type = type}

\* the wires of the wire list of diagram d that end at input q of block b
EndingAt(d, b, q) == {i \in 1..Len(diagrams[d].wirelist) :
                        LET wr == wires[diagrams[d].wirelist[i]]
                        IN  wr.end.block = b /\ wr.end.port = q}

\* the script built a diagram whose subsystems can be flattened: every
\* sub-diagram is wrapped in a subsystem block and has one inport and one
\* outport, and every input of every block of it is driven by one wire
WellFormed ==
    /\ Unwrapped = {}
    /\ \A d \in 2..Len(diagrams) :
          Cardinality(OfType(d, "inport")) = 1 /\ Cardinality(OfType(d, "outport")) = 1
    /\ \A d \in 2..Len(diagrams) : \A i \in 1..Len(diagrams[d].blocklist) :
          LET b == diagrams[d].blocklist[i]
          IN  \A q \in 0..(blocks[b].nin - 1) : Cardinality(EndingAt(d, b, q)) = 1

\* the blocks the flattened block list has to hold: those of the top
\* diagram and of every sub-diagram, pseudo-blocks and subsystem blocks apart
InnerBlocks == {b \in 1..Len(blocks) :
                  ~IsSubsystem(blocks[b]) /\ blocks[b].type \notin {"inport", "outport"}}

NoSubsystemLeft ==
    /\ \A i \in 1..Len(diagrams[Top].blocklist) :
          ~IsSubsystem(blocks[diagrams[Top].blocklist[i]])
    /\ \A b \in InnerBlocks :
          \E i \in 1..Len(diagrams[Top].blocklist) : diagrams[Top].blocklist[i] = b

\* C19: compile() of a diagram whose subsystems are well formed, nested
\* ones included, leaves no subsystem block in the block list and has every
\* block of every sub-diagram that is not an inport or outport in it.
C19_FlattenRemovesSubsystems ==
    [][(pc = "build" /\ pc' # "build" /\ WellFormed) => NoSubsystemLeft']_vars

-----------------------------------------------------------------------------
\* Subsystem shape (under SpecSub)

\* C21: compile() of a diagram with one subsystem block, whose sub-diagram
\* has no subsystem block of its own and does not hold exactly one inport
\* and one outport, ends with the subsystem-shape error (ImportError) and
\* leaves the block list and the wire list of the parent diagram as they
\* were.
C21_ShapeValidated ==
    [][LET BadShape ==
             /\ Cardinality(SubsystemsOf(Top)) = 1
             /\ \A b \in SubsystemsOf(Top) :
                   /\ SubsystemsOf(blocks[b].subsystem) = {}
                   /\ \/ Cardinality(OfType(blocks[b].subsystem, "inport")) # 1
                      \/ Cardinality(OfType(blocks[b].subsystem, "outport")) # 1
       IN (pc = "build" /\ pc' # "build" /\ BadShape) =>
             /\ result'.raised = "ImportError"
             /\ diagrams'[Top].blocklist = diagrams[Top].blocklist
             /\ diagrams'[Top].wirelist = diagrams[Top].wirelist]_vars

-----------------------------------------------------------------------------
\* A script that names blocks and compiles, and that goes on building after
\* a compile() that returned True

\* the script turns to the diagram again: add_block asks nothing about the
\* compiled flag
Resume ==
    /\ pc = "compiled"
    /\ pc' = "build"
    /\ UNCHANGED <<blocks, wires, diagrams, result>>

NextDup ==
    \/ \E tpl \in Library : AddBlock(tpl)
    \/ \E tpl \in Library : \E name \in ExplicitNames : AddNamedBlock(tpl, name)
    \/ Compile
    \/ Resume

SpecDup == Init /\ [][NextDup]_vars

\* C22: in a compiled diagram no two blocks of the block list have the same
\* name, and the name index has one entry for every block.
C22_DuplicateNamesRejected ==
    Compiled =>
       LET bl == diagrams[Top].blocklist
       IN /\ \A i \in 1..Len(bl) : \A j \in 1..Len(bl) :
                i # j => blocks[bl[i]].name # blocks[bl[j]].name
          /\ Cardinality(diagrams[Top].blocknames) = Len(bl)

\* C25: a compile() call that detects an error (it prints an error report or
\* raises) leaves the compiled flag false, also when an earlier compile() of
\* the same diagram had succeeded.
C25_ErrorsLeaveUncompiled ==
    [][(pc = "build" /\ pc' # "build"
          /\ (result'.reports # {} \/ result'.raised # "ok"))
          => ~diagrams'[Top].compiled]_vars

-----------------------------------------------------------------------------
\* The diagram state machine (under Spec)

\* C23: evaluate runs only on a diagram whose compiled flag is set: a call
\* of compile() that comes to its evaluate(x0, 0) started with the flag set.
C23_EvaluateOnlyCompiled ==
    [][(pc = "build" /\ pc' # "build" /\ result'.err # "notrun")
          => diagrams[Top].compiled]_vars

-----------------------------------------------------------------------------
(* A script whose constant has no value: the constant emits None, and the  *)
(* arithmetic of the block that receives it raises TypeError.              *)

NONESOURCE == SourceBlock("constant", 1, None)

NextRaise ==
    \/ \E tpl \in {NONESOURCE, GAIN, INTEGRATOR} : AddBlock(tpl)
    \/ \E s \in 1..Len(blocks) : \E e \in 1..Len(blocks) :
          /\ blocks[s].nout > 0
          /\ blocks[e].nin > 0
          /\ Connect(<<BlockArg(s), PlugArg(e, 0)>>)
    \/ Compile
    \/ \E t \in Times :
          \E x \in [1..StateDim(World, Top) -> FiniteVals] : Evaluate(x, t)

SpecRaise == Init /\ [][NextRaise]_vars

C28_FailureIsolation ==
    Evaluated =>
       \A k \in 1..Len(result.trace) :
          (result.trace[k][1] \in {"output", "deriv"} /\ result.trace[k][4] # "ok")
             => /\ k = Len(result.trace)
                /\ result.err = result.trace[k][4]
                /\ result.YD = <<>>

\* an evaluate in which one transfer block gave its derivative and the deriv
\* of the next one raised
C28_Witness ==
    /\ Evaluated
    /\ \E k \in 2..Len(result.trace) :
          /\ result.trace[k][1] = "deriv" /\ result.trace[k][4] = "TypeError"
          /\ result.trace[k - 1][1] = "deriv" /\ result.trace[k - 1][4] = "ok"

-----------------------------------------------------------------------------
(* run_realtime(max_time).  The call takes several steps: pc is "running"  *)
(* at the test of the while loop and "iterating" inside its body; it ends  *)
(* in "rt_done" when the call returns and "rt_failed" when it raises.      *)
(* result.args holds max_time, result.trace the calls made on the blocks:  *)
(* the start calls, then those of the latest iteration.                    *)

\* the readings of time.time() - start, in order; the last one stands for
\* every later time
Clock == <<"0", "1", "2">>

\* the position of a time on the clock
Tick(t) == CHOOSE i \in 1..Len(Clock) : Clock[i] = t

\* the values of max_time the script gives
MaxTimes == {None, "1"}

RTBlocks == {CONSTANT_, NONESOURCE, SCOPE, INTEGRATOR}

\* a run_realtime without the assertion
HasTransferNever(w, d) == FALSE

\* "for b in self.blocklist: assert not isinstance(b, TransferBlock)" fails
HasTransfer(w, d) ==
    \E i \in 1..Len(w.diagrams[d].blocklist) :
       IsTransfer(w.blocks[w.diagrams[d].blocklist[i]])

\* the calls of a method of every block in block list order
CallAll(w, d, method) ==
    [i \in 1..Len(w.diagrams[d].blocklist) |-> <<method, w.diagrams[d].blocklist[i]>>]

\* a loop test that looks at stop only
LoopCondStopOnly(dg, max_time) == dg.stop = 0

\* the test of the while loop
LoopCond(dg, max_time) ==
    dg.stop = 0 /\ (max_time = None \/ Tick(dg.t) < Tick(max_time))

\* bd.run_realtime(max_time=max_time) up to the first test of the loop
RunRealtime(max_time) ==
    /\ pc = "compiled"
    /\ diagrams' = [diagrams EXCEPT ![Top].T = IF max_time # None THEN max_time ELSE @]
    /\ UNCHANGED <<blocks, wires>>
    /\ IF HasTransfer(World, Top)
       THEN /\ pc' = "rt_failed"
            /\ result' = [NoResult EXCEPT !.op = "run_realtime", !.args = <<max_time>>,
                                          !.raised = "AssertionError"]
       ELSE /\ pc' = "running"
            /\ result' = [NoResult EXCEPT !.op = "run_realtime", !.args = <<max_time>>,
                                          !.trace = CallAll(World, Top, "start")]

\* the test of the while loop: into the body, or out of the loop and back
\* to the caller
LoopTest ==
    /\ pc = "running"
    /\ pc' = IF LoopCond(diagrams[Top], result.args[1]) THEN "iterating" ELSE "rt_done"
    /\ UNCHANGED <<blocks, wires, diagrams, result>>

\* the body of the while loop when time.time() - start reads now: reset,
\* propagate from the sources (the block list holds no transfer block), the
\* test for incomplete inputs, step
LoopBody(now) ==
    /\ pc = "iterating"
    /\ Tick(now) >= Tick(diagrams[Top].t)
    /\ \E e \in {PropagateAll([w |-> ResetAll([World EXCEPT !.diagrams[Top].t = now], Top),
                               err |-> "ok", trace |-> <<>>], Top, 1)} :
          \E err \in {IF e.err = "ok" /\ IncompleteInputs(e.w, Top)
                      THEN "RuntimeError" ELSE e.err} :
             /\ SetWorld(e.w)
             /\ pc' = IF err = "ok" THEN "running" ELSE "rt_failed"
             /\ result' = [result EXCEPT
                   !.raised = err,
                   !.trace = CallAll(World, Top, "start") \o e.trace
                                \o (IF err = "ok" THEN CallAll(World, Top, "step")
                                    ELSE <<>>)]

\* another thread sets bd.stop to a block
SetStop(b) ==
    /\ pc \in {"running", "iterating"}
    /\ diagrams[Top].stop = 0
    /\ diagrams' = [diagrams EXCEPT ![Top].stop = b]
    /\ UNCHANGED <<blocks, wires, pc, result>>

\* an iteration that reads a later time than the one before; the last
\* reading of the clock stands for every later time
Advance ==
    /\ pc = "iterating"
    /\ \E now \in {Clock[i] : i \in 1..Len(Clock)} :
          /\ \/ Tick(now) > Tick(diagrams[Top].t)
             \/ Tick(now) = Len(Clock)
          /\ LoopBody(now)

NextRT ==
    \/ \E tpl \in RTBlocks : AddBlock(tpl)
    \/ \E s \in 1..Len(blocks) : \E e \in 1..Len(blocks) :
          /\ blocks[s].nout > 0
          /\ 0 < blocks[e].nin
          /\ Connect(<<BlockArg(s), PlugArg(e, 0)>>)
    \/ Compile
    \/ \E max_time \in MaxTimes : RunRealtime(max_time)
    \/ LoopTest
    \/ \E now \in {Clock[i] : i \in 1..Len(Clock)} : LoopBody(now)
    \/ \E b \in 1..Len(blocks) : SetStop(b)

SpecRT == Init /\ [][NextRT]_vars

\* the thread of run_realtime keeps running, and wall-clock time advances
FairRT ==
    /\ SpecRT
    /\ WF_vars(LoopTest)
    /\ SF_vars(Advance)

\* C24: when run_realtime has returned, done has been invoked on every block
\* of the block list.
C24_LifecycleOrdering ==
    pc = "rt_done" =>
       \A i \in 1..Len(diagrams[Top].blocklist) :
          \E k \in 1..Len(result.trace) :
             result.trace[k] = <<"done", diagrams[Top].blocklist[i]>>

\* C26: run_realtime on a diagram that holds a transfer block raises the
\* assertion error with no call of start, output or step made on any block.
C26_RealtimeRejectsTransfer ==
    (/\ result.op = "run_realtime"
     /\ \E b \in BlockSet(World, Top) : blocks[b].blockclass = "transfer") =>
       /\ pc = "rt_failed"
       /\ result.raised = "AssertionError"
       /\ result.trace = <<>>

C26_Witness ==
    /\ result.op = "run_realtime"
    /\ \E b \in BlockSet(World, Top) : blocks[b].blockclass = "transfer"
    /\ pc = "rt_failed"

\* C27: the loop of run_realtime ends once max_time is given or stop is set;
\* no iteration begins at a loop test where stop is set or t >= max_time,
\* and the loop is not left while there is no max_time and stop is not set.
C27_RealtimeTermination ==
    /\ (pc = "running" /\ result.args # <<None>>) ~> (pc \in {"rt_done", "rt_failed"})
    /\ (pc \in {"running", "iterating"} /\ diagrams[Top].stop # 0)
          ~> (pc \in {"rt_done", "rt_failed"})
    /\ [][(pc = "running" /\ ~LoopCond(diagrams[Top], result.args[1]))
             => pc' # "iterating"]_vars
    /\ [][(pc \in {"running", "iterating"} /\ result.args = <<None>>
             /\ diagrams'[Top].stop = 0) => pc' # "rt_done"]_vars

\* the loop was left because max_time was reached, after an iteration
C27_Witness ==
    /\ pc = "rt_done"
    /\ result.args = <<"1">>
    /\ diagrams[Top].stop = 0
    /\ \E k \in 1..Len(result.trace) : result.trace[k][1] = "step"

-----------------------------------------------------------------------------
\* The evaluator in detail (under Spec)

\* C32 (state scatter): evaluate(x, t) leaves the i-th transfer block of the
\* block list with the slice of x that starts after the states of the
\* transfer blocks before it, and the derivative returned has the blocks'
\* components at the same offsets.
C32_StateScatter ==
    result.op = "evaluate" =>
       LET bl == diagrams[Top].blocklist
           Off(i) == SumSeq([j \in 1..(i - 1) |->
                               IF IsTransfer(blocks[bl[j]])
                               THEN blocks[bl[j]].nstates ELSE 0])
       IN \A i \in 1..Len(bl) :
             IsTransfer(blocks[bl[i]]) =>
                /\ blocks[bl[i]].x
                     = [k \in 1..blocks[bl[i]].nstates |-> result.x[Off(i) + k]]
                /\ result.err = "ok" =>
                     \A k \in 1..blocks[bl[i]].nstates :
                        result.YD[Off(i) + k] = blocks[bl[i]].inputs[1]

\* an evaluate of two transfer blocks with different states
C32_Witness ==
    /\ result.op = "evaluate" /\ result.err = "ok"
    /\ Len(result.x) = 2 /\ result.x[1] # result.x[2]
    /\ Len(result.YD) = 2 /\ result.YD[1] # result.YD[2]


\* C33 (per-evaluation reset): after an evaluate, or an iteration of the
\* real-time loop, every input slot holds what the last send of this
\* evaluation wrote to it, or nothing if none did, and a block counts as
\* updated only if each of its slots was sent a value in this evaluation.
C33_PerEvaluationReset ==
    (Evaluated \/ (result.op = "run_realtime"
                     /\ \E k \in 1..Len(result.trace) : result.trace[k][1] = "output")) =>
       \A b \in BlockSet(World, Top) : \A p \in 1..blocks[b].nin :
          LET S == {k \in 1..Len(result.trace) :
                      /\ result.trace[k][1] = "send"
                      /\ wires[result.trace[k][2]].end.block = b
                      /\ wires[result.trace[k][2]].end.port = p - 1}
          IN /\ blocks[b].inputs[p]
                  = IF S = {} THEN None
                    ELSE result.trace[CHOOSE k \in S : \A j \in S : j <= k][3]
             /\ blocks[b].updated =>
                  \E k \in S : result.trace[k][3] # None

\* an evaluate with another state vector than the dry run before it: a
\* function block holds the new value and counts as updated
C33_Witness ==
    /\ result.op = "evaluate" /\ result.err = "ok"
    /\ result.x # GetState(World, Top, 1)
    /\ \E b \in BlockSet(World, Top) :
          /\ blocks[b].blockclass = "function" /\ blocks[b].updated
          /\ blocks[b].inputs = <<result.x[1]>>


\* C35 (Wire.send): a send returns true exactly when, after its write, every
\* input slot of the block at the wire's end is defined: each slot has been
\* written in this evaluation and the last value written to it is not None.
C35_SendReturnsCompleteness ==
    Evaluated =>
       \A k \in 1..Len(result.trace) :
          result.trace[k][1] = "send" =>
             LET dest == wires[result.trace[k][2]].end.block
                 S(p) == {j \in 1..k :
                            /\ result.trace[j][1] = "send"
                            /\ wires[result.trace[j][2]].end.block = dest
                            /\ wires[result.trace[j][2]].end.port = p}
             IN result.trace[k][4]
                   <=> \A p \in 0..(blocks[dest].nin - 1) :
                          /\ S(p) # {}
                          /\ result.trace[CHOOSE j \in S(p) : \A i \in S(p) : i <= j][3]
                                # None


\* C34 (real-time iteration order): in an iteration of the run_realtime loop
\* that came to step(), the sources were propagated in block-list order
\* before any step, step was called on every block in block-list order, and
\* no block with inputs had an undefined input slot.
C34_RealtimeIteration ==
    (result.op = "run_realtime"
       /\ \E k \in 1..Len(result.trace) : result.trace[k][1] = "step") =>
       LET tr == result.trace
           bl == diagrams[Top].blocklist
           Pos(b) == CHOOSE i \in 1..Len(bl) : bl[i] = b
       IN /\ \A j \in 1..Len(tr) : \A k \in 1..Len(tr) :
                (tr[j][1] \in {"output", "send"} /\ tr[k][1] = "step") => j < k
          /\ \A j \in 1..Len(tr) : \A k \in 1..Len(tr) :
                (j < k /\ tr[j][1] = tr[k][1] /\ tr[j][1] \in {"output", "step"}
                   /\ (tr[j][1] = "output" => /\ IsSource(blocks[tr[j][2]])
                                               /\ IsSource(blocks[tr[k][2]])))
                   => Pos(tr[j][2]) < Pos(tr[k][2])
          /\ \A b \in BlockSet(World, Top) :
                /\ \E k \in 1..Len(tr) : tr[k] = <<"step", b>>
                /\ IsSource(blocks[b]) => \E k \in 1..Len(tr) :
                                             tr[k][1] = "output" /\ tr[k][2] = b
                /\ \A p \in 1..blocks[b].nin : blocks[b].inputs[p] # None


-----------------------------------------------------------------------------
(* The cycle search of compile() (under Spec) *)

\* C39 (loop detection terminates): the depth-first cycle search of
\* compile() comes to an end by itself from every function block, so no
\* compile() is ended by the interpreter's recursion limit.
C39_LoopSearchTerminates ==
    result.op = "compile" => result.raised # "RecursionError"


-----------------------------------------------------------------------------
(* The wires of a flattened diagram (under SpecSub) *)

\* C40 (wire endpoints stay inside the diagram): in a compiled diagram every
\* wire of the wire list starts and ends at a block of the block list.
C40_WireEndpointsInside ==
    Compiled =>
       \A i \in 1..Len(diagrams[Top].wirelist) :
          LET wr == wires[diagrams[Top].wirelist[i]]
              bl == diagrams[Top].blocklist
          IN  /\ \E j \in 1..Len(bl) : bl[j] = wr.start.block
              /\ \E j \in 1..Len(bl) : bl[j] = wr.end.block


-----------------------------------------------------------------------------
(* The single-wire case of connect() and wire names (under SpecConnect) *)

\* C36 (single-wire case): connect(src, snk) with a pair that is neither
\* slice to slice nor slice to bare block, such as a slice source with the
\* sink plug snk[1], or a scalar source with any sink, appends exactly one
\* wire, running between the two plugs given.
C36_SingleWireCase ==
    (/\ OneEnd
     /\ ~(/\ isslice(result.args[1])
          /\ (isslice(result.args[2]) \/ result.args[2].sel = "block")))
    => /\ result.raised = "ok"
       /\ KeepsBefore
       /\ Len(Added) = 1
       /\ Added[1].start = WirePlug(AsPlug(result.args[1]))
       /\ Added[1].end = WirePlug(AsPlug(result.args[2]))


\* C37 (wire names are kept): every wire a connect(..., name=n) call has
\* added to the wire list has the name n, and has no name only when the call
\* gave none.
C37_WireNamesKept ==
    (result.op = "connect" /\ result.raised = "ok") =>
       \A i \in 1..Len(Added) : Added[i].name = result.name


-----------------------------------------------------------------------------
(* A script with multi-port blocks: it names the output port and the input *)
(* port of every wire, compiles and evaluates.                             *)

PortsLibrary == {CONSTANT_, DEMUX, SUM, INTEGRATOR}

NextPorts ==
    \/ \E tpl \in PortsLibrary : AddBlock(tpl)
    \/ \E s \in 1..Len(blocks) : \E e \in 1..Len(blocks) :
          \E sp \in InPorts : \E p \in InPorts :
             /\ sp < blocks[s].nout
             /\ p < blocks[e].nin
             /\ Connect(<<PlugArg(s, sp), PlugArg(e, p)>>)
    \/ Compile
    \/ \E t \in Times :
          \E x \in [1..StateDim(World, Top) -> FiniteVals] : Evaluate(x, t)

SpecPorts == Init /\ [][NextPorts]_vars


\* C31 (propagation order): in an evaluate() of a compiled diagram the
\* top-level propagations start at the source and transfer blocks in
\* block-list order, none left out; a block sends on its output ports in
\* increasing port number and, on one port, on the wires in wire-list order,
\* none left out; and a function block that a send completed is propagated
\* at once, all its wires sent on before the sender's next wire.
C31_PropagationOrder ==
    (Compiled /\ Evaluated) =>
       LET tr == result.trace
           bl == diagrams[Top].blocklist
           wl == diagrams[Top].wirelist
           Pos(b) == CHOOSE i \in 1..Len(bl) : bl[i] = b
           WPos(wid) == CHOOSE i \in 1..Len(wl) : wl[i] = wid
           IsSend(k) == tr[k][1] = "send"
           TopOut(k) == tr[k][1] = "output" /\ (k = 1 \/ tr[k - 1][1] # "recurse")
           Starts(b) == blocks[b].blockclass \in {"source", "transfer"}
           Sender(k) == wires[tr[k][2]].start.block
           Dest(k) == wires[tr[k][2]].end.block
           Earlier(v, w) == \/ wires[v].start.port < wires[w].start.port
                            \/ /\ wires[v].start.port = wires[w].start.port
                               /\ WPos(v) < WPos(w)
           Recursed(k) == tr[k][4] /\ blocks[Dest(k)].blockclass = "function"
       IN /\ \A k \in 1..Len(tr) : TopOut(k) =>
                /\ Starts(tr[k][2])
                /\ \A j \in 1..(k - 1) : TopOut(j) => Pos(tr[j][2]) < Pos(tr[k][2])
                /\ \A i \in 1..(Pos(tr[k][2]) - 1) : Starts(bl[i]) =>
                      \E j \in 1..(k - 1) : TopOut(j) /\ tr[j][2] = bl[i]
          /\ \A k \in 1..Len(tr) : IsSend(k) =>
                /\ \A j \in 1..(k - 1) :
                      (IsSend(j) /\ Sender(j) = Sender(k)) => Earlier(tr[j][2], tr[k][2])
                /\ \A i \in 1..Len(wl) :
                      (wires[wl[i]].start.block = Sender(k) /\ Earlier(wl[i], tr[k][2]))
                         => \E j \in 1..(k - 1) : IsSend(j) /\ tr[j][2] = wl[i]
                /\ Recursed(k) =>
                      /\ k + 2 <= Len(tr)
                      /\ tr[k + 1] = <<"recurse", Dest(k)>>
                      /\ tr[k + 2][1] = "output" /\ tr[k + 2][2] = Dest(k)
                /\ \A m \in (k + 1)..Len(tr) :
                      (/\ IsSend(m) /\ Sender(m) = Sender(k)
                       /\ \A j \in (k + 1)..(m - 1) : ~(IsSend(j) /\ Sender(j) = Sender(k)))
                      => IF Recursed(k)
                         THEN \A i \in 1..Len(wl) :
                                 wires[wl[i]].start.block = Dest(k) =>
                                    \E j \in (k + 1)..(m - 1) : IsSend(j) /\ tr[j][2] = wl[i]
                         ELSE m = k + 1


\* a demultiplexer whose wire from port 0 was added after its wire from
\* port 1 has sent on port 0 first, and the block that send completed was
\* propagated before the wire of port 1 got its value
C31_Witness ==
    /\ Compiled
    /\ result.op = "evaluate"
    /\ result.err = "ok"
    /\ \E k \in 1..Len(result.trace) : \E m \in (k + 3)..Len(result.trace) :
          /\ result.trace[k][1] = "send" /\ result.trace[m][1] = "send"
          /\ wires[result.trace[k][2]].start.block = wires[result.trace[m][2]].start.block
          /\ wires[result.trace[k][2]].start.port < wires[result.trace[m][2]].start.port
          /\ result.trace[k][2] > result.trace[m][2]
          /\ result.trace[k + 1][1] = "recurse"
          /\ result.trace[k + 2][1] = "output"


-----------------------------------------------------------------------------
(* A script that names ports its blocks may not have: too large (1) or     *)
(* negative (-1) for blocks with one port                                  *)

RangePorts == {-1, 0, 1}

NextRange ==
    \/ \E tpl \in TopLibrary : AddBlock(tpl)
    \/ \E s \in 1..Len(blocks) : \E e \in 1..Len(blocks) :
          \E sp \in RangePorts : \E p \in RangePorts :
             /\ blocks[s].nout > 0
             /\ blocks[e].nin > 0
             /\ Connect(<<PlugArg(s, sp), PlugArg(e, p)>>)
    \/ Compile
    \/ \E t \in Times :
          \E x \in [1..StateDim(World, Top) -> FiniteVals] : Evaluate(x, t)

SpecRange == Init /\ [][NextRange]_vars

\* C38 (port range check): a diagram whose wire list holds a wire with a
\* start port outside 0..nout-1 of its source block or an end port outside
\* 0..nin-1 of its sink block, too large or negative, is never marked
\* compiled; in a compiled diagram every wire is in outports[start.port] of
\* its source block and is inports[end.port] of its sink block.
C38_PortRangeCheck ==
    Compiled =>
       \A i \in 1..Len(diagrams[Top].wirelist) :
          LET wid == diagrams[Top].wirelist[i]
              wr == wires[wid]
              src == blocks[wr.start.block]
              snk == blocks[wr.end.block]
          IN  /\ wr.start.port \in 0..(src.nout - 1)
              /\ wr.end.port \in 0..(snk.nin - 1)
              /\ \E k \in 1..Len(src.outports[wr.start.port + 1]) :
                    src.outports[wr.start.port + 1][k] = wid
              /\ snk.inports[wr.end.port + 1] = wid

=============================================================================
